---- MODULE Spec2Model ----
(***************************************************************************)
(* Model of the countdown timer hook (src/src/hooks/useTimer.ts) and of    *)
(* the click classifier of the timer display                               *)
(* (src/src/components/Timer/TimerDisplay.tsx), wired as in App.tsx        *)
(* (src/unnamed/part_000): onToggle = timer.toggle, onReset = timer.reset. *)
(*                                                                         *)
(* React semantics that the code relies on are modelled explicitly:        *)
(*  - start, pause and toggle are closures over the state of the render    *)
(*    that created them (useCallback with state.status / state.remainingMs *)
(*    as dependencies): they read a snapshot, not the current state;       *)
(*  - setState(updater) applies the updater to the current state;          *)
(*  - refs (intervalRef, startTimeRef, remainingAtStartRef,                *)
(*    clickTimestamps) are read and written live;                          *)
(*  - a render commits between two events of the event loop; several calls *)
(*    of the hook's functions made by one handler share one render.        *)
(* Time is Date.now() in milliseconds; setTimeout / setInterval callbacks  *)
(* run no earlier than they are due, and events due at the same instant    *)
(* run in either order.                                                    *)
(***************************************************************************)
EXTENDS Integers, Sequences, FiniteSets

\* ---------------------------------------------------------------- bounds
MaxAdvances == 8
UiMaxAdvances == 12
MaxClicks == 1
UiMaxClicks == 6
MaxIntervals == 2
MaxApiCalls == 2

\* Clock advances offered to the environment (milliseconds), per specification,
\* and the last instant each specification explores.
Steps == {100}
UiSteps == {50}
Widest(S) == CHOOSE x \in S : \A y \in S : y <= x
MaxTime == MaxAdvances * Widest(Steps)
UiMaxTime == UiMaxAdvances * Widest(UiSteps)
\* initialDuration option values passed to useTimer (milliseconds).
InitialDurations == {300, 1500}
\* Arguments passed to setDuration (milliseconds).
DurationInputs == {0, 1200}

\* ------------------------------------------------------- program constants
TRIPLE_CLICK_WINDOW == 500
TICK_MS == 16
MIN_DURATION_MS == 1000

VARIABLES
    now,                 \* Date.now()
    state,               \* useState<TimerState>: remainingMs, status, initialMs
    rendered,            \* state.status / state.remainingMs seen by the closures of the last render
    inHandler,           \* a handler calling the hook's functions has not returned to React yet
    intervalRef,         \* intervalRef.current (0 = null)
    startTimeRef,        \* startTimeRef.current
    remainingAtStartRef, \* remainingAtStartRef.current
    intervals,           \* ids of the setInterval handles not yet cleared
    armed,               \* live handles whose next callback is due
    onCompleteCalls,     \* number of invocations of onCompleteRef.current
    clickTimestamps,     \* clickTimestamps.current
    timeouts,            \* pending setTimeout checks, each with the onToggle closure it captured
    burst,               \* history: the current click burst and what the classifier fired for it
    nClicks,             \* history: number of clicks handled
    completions,         \* history: number of running -> completed transitions
    apiCalls,            \* history: number of direct calls of the hook's functions
    mounted,             \* the component that owns the hook is mounted
    lateTicks,           \* history: setInterval callbacks run after the unmount
    ranMs                \* history: time spent in status running since construction, reset or setDuration

timerVars == <<state, intervalRef, startTimeRef, remainingAtStartRef, intervals,
               armed, onCompleteCalls, completions, ranMs>>
clickVars == <<clickTimestamps, timeouts, burst, nClicks>>
lifeVars == <<mounted, lateTicks>>
vars == <<now, rendered, inHandler, apiCalls, timerVars, clickVars, lifeVars>>

Statuses == {"idle", "running", "paused", "completed"}

Max(a, b) == IF a >= b THEN a ELSE b

\* The part of the state the closures of a render capture.
Snapshot(s) == [status |-> s.status, remainingMs |-> s.remainingMs]

Dirty == rendered # Snapshot(state)

\* ------------------------------------------------------------ useTimer
\* setInterval: the handle returned for a new interval.
NewInterval == CHOOSE i \in 1..MaxIntervals : i \notin intervals /\
                  \A j \in 1..MaxIntervals : j \notin intervals => i <= j

CanAllocate == \E i \in 1..MaxIntervals : i \notin intervals

\* stopInterval, as the sets of handles left after it.
stopIntervalLive == IF intervalRef # 0 THEN intervals \ {intervalRef} ELSE intervals

stopIntervalArmed == IF intervalRef # 0 THEN armed \ {intervalRef} ELSE armed

TimerNoop == UNCHANGED timerVars

\* start, called through a closure that captured c.
start(c) ==
    IF c.status = "running" \/ c.remainingMs <= 0
    THEN TimerNoop
    ELSE /\ CanAllocate
         /\ startTimeRef' = now
         /\ remainingAtStartRef' = c.remainingMs
         /\ state' = [state EXCEPT !.status = "running"]
         /\ intervalRef' = NewInterval
         /\ intervals' = intervals \cup {NewInterval}
         /\ armed' = armed
         /\ UNCHANGED <<onCompleteCalls, completions, ranMs>>

\* pause, called through a closure that captured c.
pause(c) ==
    IF c.status # "running"
    THEN TimerNoop
    ELSE /\ intervals' = stopIntervalLive
         /\ armed' = stopIntervalArmed
         /\ intervalRef' = 0
         /\ state' = [state EXCEPT !.status = "paused"]
         /\ UNCHANGED <<startTimeRef, remainingAtStartRef, onCompleteCalls, completions, ranMs>>

reset ==
    /\ intervals' = stopIntervalLive
    /\ armed' = stopIntervalArmed
    /\ intervalRef' = 0
    /\ state' = [state EXCEPT !.remainingMs = state.initialMs, !.status = "idle"]
    /\ ranMs' = 0
    /\ UNCHANGED <<startTimeRef, remainingAtStartRef, onCompleteCalls, completions>>

\* toggle, called through a closure that captured c.
toggle(c) ==
    IF c.status = "running" THEN pause(c)
    ELSE IF c.status \in {"idle", "paused"} THEN start(c)
    ELSE reset

setDuration(ms) ==
    LET safeDuration == Max(MIN_DURATION_MS, ms) IN
    /\ intervals' = stopIntervalLive
    /\ armed' = stopIntervalArmed
    /\ intervalRef' = 0
    /\ state' = [remainingMs |-> safeDuration, status |-> "idle", initialMs |-> safeDuration]
    /\ ranMs' = 0
    /\ UNCHANGED <<startTimeRef, remainingAtStartRef, onCompleteCalls, completions>>

\* The setInterval callback with the completing branch keeping prev.remainingMs.
tick_NoPin(id) ==
    LET elapsed == now - startTimeRef
        newRemaining == Max(0, remainingAtStartRef - elapsed)
    IN
    IF newRemaining <= 0
    THEN /\ intervals' = stopIntervalLive
         /\ armed' = stopIntervalArmed \ {id}
         /\ intervalRef' = 0
         /\ onCompleteCalls' = onCompleteCalls + 1
         /\ completions' = IF state.status = "running" THEN completions + 1 ELSE completions
         /\ state' = [state EXCEPT !.status = "completed"]
         /\ UNCHANGED <<startTimeRef, remainingAtStartRef, ranMs>>
    ELSE /\ state' = [state EXCEPT !.remainingMs = newRemaining]
         /\ armed' = armed \ {id}
         /\ UNCHANGED <<intervalRef, intervals, startTimeRef, remainingAtStartRef,
                        onCompleteCalls, completions, ranMs>>

\* The setInterval callback with the completing branch not calling stopInterval.
tick_NoStop(id) ==
    LET elapsed == now - startTimeRef
        newRemaining == Max(0, remainingAtStartRef - elapsed)
    IN
    IF newRemaining <= 0
    THEN /\ armed' = armed \ {id}
         /\ onCompleteCalls' = onCompleteCalls + 1
         /\ completions' = IF state.status = "running" THEN completions + 1 ELSE completions
         /\ state' = [state EXCEPT !.remainingMs = 0, !.status = "completed"]
         /\ UNCHANGED <<intervalRef, intervals, startTimeRef, remainingAtStartRef, ranMs>>
    ELSE /\ state' = [state EXCEPT !.remainingMs = newRemaining]
         /\ armed' = armed \ {id}
         /\ UNCHANGED <<intervalRef, intervals, startTimeRef, remainingAtStartRef,
                        onCompleteCalls, completions, ranMs>>

\* The setInterval callback counting the period down from the previous value
\* instead of reading the clock.
tick_Decrement(id) ==
    LET newRemaining == Max(0, state.remainingMs - TICK_MS)
    IN
    IF newRemaining <= 0
    THEN /\ intervals' = stopIntervalLive
         /\ armed' = stopIntervalArmed \ {id}
         /\ intervalRef' = 0
         /\ onCompleteCalls' = onCompleteCalls + 1
         /\ completions' = IF state.status = "running" THEN completions + 1 ELSE completions
         /\ state' = [state EXCEPT !.remainingMs = 0, !.status = "completed"]
         /\ UNCHANGED <<startTimeRef, remainingAtStartRef, ranMs>>
    ELSE /\ state' = [state EXCEPT !.remainingMs = newRemaining]
         /\ armed' = armed \ {id}
         /\ UNCHANGED <<intervalRef, intervals, startTimeRef, remainingAtStartRef,
                        onCompleteCalls, completions, ranMs>>

\* The setInterval callback of handle id.
tick(id) ==
    LET elapsed == now - startTimeRef
        newRemaining == Max(0, remainingAtStartRef - elapsed)
    IN
    IF newRemaining <= 0
    THEN /\ intervals' = stopIntervalLive
         /\ armed' = stopIntervalArmed \ {id}
         /\ intervalRef' = 0
         /\ onCompleteCalls' = onCompleteCalls + 1
         /\ completions' = IF state.status = "running" THEN completions + 1 ELSE completions
         /\ state' = [state EXCEPT !.remainingMs = 0, !.status = "completed"]
         /\ UNCHANGED <<startTimeRef, remainingAtStartRef, ranMs>>
    ELSE /\ state' = [state EXCEPT !.remainingMs = newRemaining]
         /\ armed' = armed \ {id}
         /\ UNCHANGED <<intervalRef, intervals, startTimeRef, remainingAtStartRef,
                        onCompleteCalls, completions, ranMs>>

\* ------------------------------------------------------------ TimerDisplay
\* clickTimestamps.current.filter(timestamp => now - timestamp < TRIPLE_CLICK_WINDOW)
FilterWindow(ts, t) == SelectSeq(ts, LAMBDA x : t - x < TRIPLE_CLICK_WINDOW)

\* ------------------------------------------------------------ history
\* A burst is a run of clicks each less than TRIPLE_CLICK_WINDOW after the one
\* before it, begun by a click at least TRIPLE_CLICK_WINDOW after the previous
\* burst's last click. spread: some click came TRIPLE_CLICK_WINDOW or more after
\* the burst's first click (the burst does not fit one window). quiet: no
\* deferred check was pending when the burst began. early: a toggle fired less
\* than TRIPLE_CLICK_WINDOW after the burst's first click.
NoBurst == [first |-> 0, last |-> 0, n |-> 0, resets |-> 0, toggles |-> 0,
            spread |-> FALSE, quiet |-> TRUE, early |-> FALSE]

BurstAfterClick(isReset) ==
    IF burst.n = 0 \/ now - burst.last >= TRIPLE_CLICK_WINDOW
    THEN [first |-> now, last |-> now, n |-> 1,
          resets |-> IF isReset THEN 1 ELSE 0, toggles |-> 0,
          spread |-> FALSE, quiet |-> timeouts = {}, early |-> FALSE]
    ELSE [burst EXCEPT !.last = now, !.n = @ + 1,
                       !.resets = IF isReset THEN @ + 1 ELSE @,
                       !.spread = @ \/ now - burst.first >= TRIPLE_CLICK_WINDOW]

BurstAfterToggle ==
    [burst EXCEPT !.toggles = @ + 1,
                  !.early = @ \/ now < burst.first + TRIPLE_CLICK_WINDOW]

\* ------------------------------------------------------------ initial state
Init ==
    /\ now = 0
    /\ \E d \in InitialDurations :
          state = [remainingMs |-> d, status |-> "idle", initialMs |-> d]
    /\ rendered = Snapshot(state)
    /\ inHandler = FALSE
    /\ intervalRef = 0
    /\ startTimeRef = 0
    /\ remainingAtStartRef = 0
    /\ intervals = {}
    /\ armed = {}
    /\ onCompleteCalls = 0
    /\ clickTimestamps = <<>>
    /\ timeouts = {}
    /\ burst = NoBurst
    /\ nClicks = 0
    /\ completions = 0
    /\ apiCalls = 0
    /\ mounted = TRUE
    /\ lateTicks = 0
    /\ ranMs = 0

\* ------------------------------------------------------------ events
\* An event of the event loop starts from a committed render.
Idle == ~Dirty /\ ~inHandler

\* React commits the render of the pending state; new closures capture it.
Render ==
    /\ Dirty \/ inHandler
    /\ rendered' = Snapshot(state)
    /\ inHandler' = FALSE
    /\ UNCHANGED <<now, apiCalls, timerVars, clickVars, lifeVars>>

\* handleClick
Click(limit) ==
    /\ Idle
    /\ nClicks < limit
    /\ IF burst.n = 0 THEN TRUE ELSE burst.last < now
    /\ nClicks' = nClicks + 1
    /\ LET kept == FilterWindow(Append(clickTimestamps, now), now) IN
       IF Len(kept) >= 3
       THEN /\ clickTimestamps' = <<>>
            /\ reset
            /\ burst' = BurstAfterClick(TRUE)
            /\ UNCHANGED timeouts
       ELSE /\ clickTimestamps' = kept
            /\ timeouts' = timeouts \cup
                  {[due |-> now + TRIPLE_CLICK_WINDOW, c |-> rendered]}
            /\ burst' = BurstAfterClick(FALSE)
            /\ UNCHANGED timerVars
    /\ UNCHANGED <<now, rendered, inHandler, apiCalls, lifeVars>>

\* The test of the deferred check: "only toggle if we don't reach triple click".
DeferredToggleDue_NoEmptyTest == Len(clickTimestamps) < 3

DeferredToggleDue == Len(clickTimestamps) > 0 /\ Len(clickTimestamps) < 3

\* The setTimeout callback scheduled by handleClick.
DeferredCheck(t) ==
    /\ Idle
    /\ t \in timeouts
    /\ now >= t.due
    /\ timeouts' = timeouts \ {t}
    /\ IF DeferredToggleDue
       THEN /\ toggle(t.c)
            /\ clickTimestamps' = <<>>
            /\ burst' = BurstAfterToggle
       ELSE UNCHANGED <<clickTimestamps, burst, timerVars>>
    /\ UNCHANGED <<now, rendered, inHandler, apiCalls, nClicks, lifeVars>>

\* One firing of a live interval.
Tick(id) ==
    /\ Idle
    /\ id \in armed
    /\ tick(id)
    /\ UNCHANGED <<now, rendered, inHandler, apiCalls, clickVars, lifeVars>>

\* Direct calls of the functions the hook returns, through the closures of
\* the last render.
ApiGuard == apiCalls < MaxApiCalls /\ (Idle \/ inHandler)

ApiFrame ==
    /\ apiCalls' = apiCalls + 1
    /\ inHandler' = TRUE
    /\ UNCHANGED <<now, rendered, clickVars, lifeVars>>

StartCall == ApiGuard /\ start(rendered) /\ ApiFrame

PauseCall == ApiGuard /\ pause(rendered) /\ ApiFrame

ResetCall == ApiGuard /\ reset /\ ApiFrame

ToggleCall == ApiGuard /\ toggle(rendered) /\ ApiFrame

SetDurationCall(ms) == ApiGuard /\ setDuration(ms) /\ ApiFrame

\* Date.now() moves on by d, up to limit, once every callback due now has run.
Advance(d, limit) ==
    /\ Idle
    /\ now + d <= limit
    /\ armed = {}
    /\ \A t \in timeouts : t.due > now
    /\ d >= TICK_MS
    /\ now' = now + d
    /\ armed' = intervals
    /\ ranMs' = IF state.status = "running" THEN ranMs + d ELSE ranMs
    /\ UNCHANGED <<rendered, inHandler, apiCalls, clickVars, state, intervalRef,
                   startTimeRef, remainingAtStartRef, intervals, onCompleteCalls,
                   completions, lifeVars>>

Next ==
    \/ Render
    \/ Click(MaxClicks)
    \/ \E t \in timeouts : DeferredCheck(t)
    \/ \E id \in intervals : Tick(id)
    \/ StartCall
    \/ PauseCall
    \/ ResetCall
    \/ ToggleCall
    \/ \E ms \in DurationInputs : SetDurationCall(ms)
    \/ \E d \in Steps : Advance(d, MaxTime)

Spec == Init /\ [][Next]_vars

\* The widget as App.tsx renders it: the only callers of the hook are the
\* click classifier (toggle, reset) and the interval.
NextUi ==
    \/ Render
    \/ Click(UiMaxClicks)
    \/ \E t \in timeouts : DeferredCheck(t)
    \/ \E id \in intervals : Tick(id)
    \/ \E d \in UiSteps : Advance(d, UiMaxTime)

SpecUi == Init /\ [][NextUi]_vars

\* The owning component unmounts. useTimer registers no effect cleanup
\* ("clean up on unmount" is a comment with no code under it), so nothing
\* of the timer changes: a live interval stays live.
Unmount ==
    /\ mounted
    /\ Idle
    /\ mounted' = FALSE
    /\ UNCHANGED <<now, rendered, inHandler, apiCalls, timerVars, clickVars, lateTicks>>

\* The setInterval callback of a handle left live by the unmount. setState on
\* the unmounted component commits nothing; React either drops the updater
\* or evaluates it once without committing, which runs the updater's
\* stopInterval() and onComplete() when the countdown has reached zero.
TickAfterUnmount(id) ==
    /\ ~mounted
    /\ id \in armed
    /\ lateTicks' = lateTicks + 1
    /\ \/ /\ armed' = armed \ {id}
          /\ UNCHANGED <<state, intervalRef, startTimeRef, remainingAtStartRef,
                         intervals, onCompleteCalls, completions, ranMs>>
       \/ /\ Max(0, remainingAtStartRef - (now - startTimeRef)) <= 0
          /\ intervals' = stopIntervalLive
          /\ armed' = stopIntervalArmed \ {id}
          /\ intervalRef' = 0
          /\ onCompleteCalls' = onCompleteCalls + 1
          /\ UNCHANGED <<state, startTimeRef, remainingAtStartRef, completions, ranMs>>
    /\ UNCHANGED <<now, rendered, inHandler, apiCalls, clickVars, mounted>>

\* The hook used by a component that unmounts: direct calls and ticks while
\* mounted, the surviving interval afterwards.
NextUnmount ==
    \/ mounted /\ Render
    \/ \E id \in intervals : mounted /\ Tick(id)
    \/ mounted /\ StartCall
    \/ mounted /\ PauseCall
    \/ mounted /\ ResetCall
    \/ mounted /\ ToggleCall
    \/ \E ms \in DurationInputs : mounted /\ SetDurationCall(ms)
    \/ Unmount
    \/ \E id \in intervals : TickAfterUnmount(id)
    \/ \E d \in Steps : Advance(d, MaxTime)

SpecUnmount == Init /\ [][NextUnmount]_vars

\* A timer started once from idle and then left alone: no other call, no
\* click. The clock runs at least until the countdown's deadline.
RunHorizon ==
    IF state.status = "running"
    THEN Max(MaxTime, startTimeRef + remainingAtStartRef)
    ELSE MaxTime

StartOnce ==
    /\ apiCalls = 0
    /\ state.status = "idle"
    /\ StartCall

NextRun ==
    \/ Render
    \/ \E id \in intervals : Tick(id)
    \/ StartOnce
    \/ \E d \in Steps : Advance(d, RunHorizon)

\* React commits a scheduled render, a live interval keeps firing, and the
\* clock keeps advancing.
SpecRun ==
    /\ Init
    /\ [][NextRun]_vars
    /\ WF_vars(Render)
    /\ WF_vars(\E id \in intervals : Tick(id))
    /\ WF_vars(\E d \in Steps : Advance(d, RunHorizon))

\* Tick scheduling jitter: setInterval callbacks run no earlier than due but
\* may run late, and firings missed while one is pending are not queued.
JitterSteps == {50, 100}

\* Date.now() moves on by d while an interval's callback is still pending.
Late(d, limit) ==
    /\ Idle
    /\ now + d <= limit
    /\ armed # {}
    /\ \A t \in timeouts : t.due > now
    /\ now' = now + d
    /\ ranMs' = IF state.status = "running" THEN ranMs + d ELSE ranMs
    /\ UNCHANGED <<rendered, inHandler, apiCalls, clickVars, state, intervalRef,
                   startTimeRef, remainingAtStartRef, intervals, armed,
                   onCompleteCalls, completions, lifeVars>>

\* The hook driven by direct start and pause calls under every tick schedule
\* on the grid of JitterSteps.
NextJitter ==
    \/ Render
    \/ \E id \in intervals : Tick(id)
    \/ StartCall
    \/ PauseCall
    \/ \E d \in JitterSteps : Advance(d, MaxTime)
    \/ \E d \in JitterSteps : Late(d, MaxTime)

SpecJitter == Init /\ [][NextJitter]_vars

TypeOK ==
    /\ now \in 0..MaxTime
    /\ state.status \in Statuses
    /\ intervalRef \in 0..MaxIntervals
    /\ intervals \subseteq 1..MaxIntervals
    /\ armed \subseteq intervals
    /\ intervalRef # 0 => intervalRef \in intervals
    /\ nClicks <= UiMaxClicks

\* ------------------------------------------------------------ claims
\* Steps that run start, pause: directly, through toggle, or through the
\* classifier's deferred check.
StartInvoked ==
    \/ StartCall
    \/ ToggleCall /\ rendered.status \in {"idle", "paused"}
    \/ \E t \in timeouts :
          DeferredCheck(t) /\ DeferredToggleDue /\ t.c.status \in {"idle", "paused"}

PauseInvoked ==
    \/ PauseCall
    \/ ToggleCall /\ rendered.status = "running"
    \/ \E t \in timeouts :
          DeferredCheck(t) /\ DeferredToggleDue /\ t.c.status = "running"

\* C1: onComplete has been invoked exactly once for each time the countdown
\* reached zero (each running -> completed transition), never more, never less.
C1_OnCompleteOncePerCompletion == onCompleteCalls = completions

\* C2: at most one setInterval handle is live at any time.
C2_AtMostOneInterval == Cardinality(intervals) <= 1

\* C3: a burst of exactly 3 clicks within one detection window has produced
\* exactly one reset and no toggle, whatever preceded the burst.
C3_TripleClickResetsOnce ==
    (burst.n = 3 /\ ~burst.spread) => (burst.resets = 1 /\ burst.toggles = 0)

\* C4: a burst of exactly 2 clicks within one detection window, begun with no
\* deferred check pending and followed by no third click, produces no reset
\* and exactly one toggle, fired no earlier than TRIPLE_CLICK_WINDOW after the
\* first click; once both deferred checks have run the toggle count is 1.
C4_DoubleClickTogglesOnce ==
    (burst.n = 2 /\ ~burst.spread /\ burst.quiet) =>
        /\ burst.resets = 0
        /\ burst.toggles <= 1
        /\ ~burst.early
        /\ (timeouts = {} => burst.toggles = 1)

C4_Witness ==
    /\ burst.n = 2 /\ ~burst.spread /\ burst.quiet
    /\ timeouts = {}
    /\ burst.toggles = 1
    /\ now >= burst.first + TRIPLE_CLICK_WINDOW

\* C5: a burst of more than 3 clicks within one detection window produces
\* exactly one reset.
C5_LargeBurstResetsOnce ==
    (burst.n > 3 /\ ~burst.spread) => burst.resets = 1

\* C6: a burst within one detection window never produces both a reset and a
\* toggle.
C6_NeverBothToggleAndReset ==
    ~burst.spread => ~(burst.resets >= 1 /\ burst.toggles >= 1)

\* C7: a step that leaves status completed leads to idle.
C7_CompletedExitsOnlyToIdle ==
    [][state.status = "completed" => state'.status \in {"completed", "idle"}]_vars

\* C8: pause invoked while the current status is not running changes neither
\* the timer state nor the interval handle.
C8_PauseNoopUnlessRunning ==
    [][(PauseInvoked /\ state.status # "running") =>
          UNCHANGED <<state, intervalRef, intervals>>]_vars

\* C9: start invoked while the current status is running changes neither the
\* baseline, the timer state nor the set of live intervals.
C9_StartIdempotentWhileRunning ==
    [][(StartInvoked /\ state.status = "running") =>
          UNCHANGED <<startTimeRef, remainingAtStartRef, state, intervals>>]_vars

\* C10: 0 <= remainingMs <= initialMs in every reachable state.
C10_RemainingWithinInitial ==
    state.remainingMs >= 0 /\ state.remainingMs <= state.initialMs

\* C11: whenever status is completed, remainingMs is 0.
C11_CompletedImpliesZero == state.status = "completed" => state.remainingMs = 0

C11_Witness == state.status = "completed" /\ completions >= 1 /\ state.initialMs > 0

\* C12: no interval callback runs after the owning component has unmounted.
C12_NoTickAfterUnmount == lateTicks = 0

\* Steps that run toggle, reset: directly or through the classifier.
ToggleInvoked ==
    \/ ToggleCall
    \/ \E t \in timeouts : DeferredCheck(t) /\ DeferredToggleDue

ResetInvoked ==
    \/ ResetCall
    \/ ToggleCall /\ rendered.status = "completed"
    \/ \E t \in timeouts :
          DeferredCheck(t) /\ DeferredToggleDue /\ t.c.status = "completed"
    \/ Click(MaxClicks) /\ Len(FilterWindow(Append(clickTimestamps, now), now)) >= 3

\* C13: setDuration(d), from any status, leaves remainingMs = initialMs =
\* max(1000, d), status idle and no live interval.
C13_SetDurationPostcondition ==
    [][\A ms \in DurationInputs :
          SetDurationCall(ms) =>
             /\ state' = [remainingMs |-> Max(1000, ms), status |-> "idle",
                          initialMs |-> Max(1000, ms)]
             /\ intervals' = {}]_vars

\* C15: toggle invoked while the status is completed leaves status idle,
\* remainingMs = initialMs and no live interval.
C15_ToggleOnCompletedResets ==
    [][(ToggleInvoked /\ state.status = "completed") =>
          /\ state'.status = "idle"
          /\ state'.remainingMs = state.initialMs
          /\ intervals' = {}]_vars

\* The timer has just been started: it is running on a baseline taken at this
\* instant, and the interval start created has not fired yet.
JustStarted ==
    /\ state.status = "running"
    /\ startTimeRef = now
    /\ intervalRef # 0
    /\ intervalRef \notin armed

\* C16: pause called right after start, before any tick, leaves status paused,
\* remainingMs as it was and no live interval.
C16_StartThenPause ==
    [][(PauseCall /\ JustStarted) =>
          /\ state'.status = "paused"
          /\ state'.remainingMs = state.remainingMs
          /\ intervals' = {}]_vars

\* C17: reset, from any status, leaves remainingMs = initialMs, status idle,
\* initialMs unchanged and no live interval.
C17_ResetPostcondition ==
    [][ResetInvoked =>
          /\ state' = [state EXCEPT !.remainingMs = state.initialMs, !.status = "idle"]
          /\ intervals' = {}]_vars

\* C18: across a step that keeps status running (and the duration),
\* remainingMs does not increase and stays within [0, initialMs].
C18_RemainingMonotoneWhileRunning ==
    [][(state.status = "running" /\ state'.status = "running"
          /\ state'.initialMs = state.initialMs) =>
          /\ state'.remainingMs <= state.remainingMs
          /\ state'.remainingMs >= 0
          /\ state'.remainingMs <= state'.initialMs]_vars

\* C19: when a deferred check invokes toggle, at least TRIPLE_CLICK_WINDOW has
\* passed since the oldest timestamp in the buffer.
C19_ToggleOnlyAfterWindow ==
    [][\A t \in timeouts :
          (DeferredCheck(t) /\ DeferredToggleDue) =>
             now - clickTimestamps[1] >= TRIPLE_CLICK_WINDOW]_vars

\* C20: an interval is live only while status is running.
C20_IntervalOnlyWhileRunning == state.status # "running" => intervals = {}

\* C14: a timer that is started and left alone eventually is completed with
\* remainingMs = 0 and no live interval, and stays so.
C14_EventuallyCompleted ==
    (state.status = "running") ~>
        [](state.status = "completed" /\ state.remainingMs = 0 /\ intervals = {})

C14_Witness ==
    /\ state.status = "completed" /\ state.remainingMs = 0 /\ intervals = {}
    /\ completions = 1 /\ apiCalls = 1

\* C22: the timer never completes early: whenever status becomes completed,
\* the time spent in status running since the last construction, reset or
\* setDuration is at least initialMs.
C22_NeverCompletesEarly ==
    [][(state.status # "completed" /\ state'.status = "completed") =>
          ranMs' >= state'.initialMs]_vars

\* C23: no stuck state: with a positive initial duration, remainingMs = 0
\* only together with status completed.
C23_NoStuckState ==
    (state.initialMs > 0 /\ state.status \in {"idle", "paused", "running"}) =>
        state.remainingMs > 0

\* C21: drift-freedom: a tick at clock time t writes
\* max(0, baselineRemaining - (t - baselineTime)) and leaves the baseline as
\* it is, whatever ticks fired before it and however late it runs.
C21_DriftFree ==
    [][\A id \in intervals : Tick(id) =>
          /\ state'.remainingMs = Max(0, remainingAtStartRef - (now - startTimeRef))
          /\ startTimeRef' = startTimeRef
          /\ remainingAtStartRef' = remainingAtStartRef]_vars

\* A tick written at a time off the 100 ms grid, after a late start.
C21_Witness ==
    /\ state.status = "running" /\ armed = {} /\ intervals # {}
    /\ startTimeRef > 0
    /\ (now - startTimeRef) % 100 = 50
    /\ state.remainingMs > 0
    /\ state.remainingMs = remainingAtStartRef - (now - startTimeRef)
====
